---- MODULE Spec2Model ----
(***************************************************************************)
(* Model of the job pipeline of service-clipper:                           *)
(*   job_handler/handler.py   process_job                                  *)
(*   transcriber/transcribe.py transcribe_video                            *)
(*   segmenter/segment.py     export_segments                              *)
(*   utils/ffmpeg_utils.py    extract_* (outcome chosen by the environment)*)
(* Paths, file names and messages are Python strings, modelled as TLA+     *)
(* strings; the file system is the set of directories and the set of files *)
(* that exist.                                                             *)
(***************************************************************************)
EXTENDS Integers, Sequences, FiniteSets, TLC

\* Longest segment list of a job request.
MaxSegments == 3

(***************************************************************************)
(* Python values                                                           *)
(***************************************************************************)
\* Python's None, kept apart from every string the model uses.
None == "<None>"

\* str(v), as the f-strings of the handler format a value.
Str(v) == IF v = None THEN "None" ELSE v

\* bool(v) of a str|None value: None and "" are falsy.
Truthy(v) == v # None /\ v # ""

\* d.get(k, default) on a dict.
Get(d, k, default) == IF k \in DOMAIN d THEN d[k] ELSE default

(***************************************************************************)
(* os.path                                                                 *)
(***************************************************************************)
RECURSIVE LastIndexOf(_, _, _)
\* s.rfind(c) among the first n characters, 1-based, 0 when absent.
LastIndexOf(s, c, n) ==
  IF n = 0 THEN 0
  ELSE IF SubSeq(s, n, n) = c THEN n
  ELSE LastIndexOf(s, c, n - 1)

\* os.path.basename(p)
basename(p) == SubSeq(p, LastIndexOf(p, "/", Len(p)) + 1, Len(p))

\* os.path.dirname(p)
dirname(p) ==
  LET k == LastIndexOf(p, "/", Len(p))
  IN  IF k = 0 THEN "" ELSE IF k = 1 THEN "/" ELSE SubSeq(p, 1, k - 1)

\* os.path.splitext(p)[0]
splitext_root(p) ==
  LET d == LastIndexOf(p, ".", Len(p))
      s == LastIndexOf(p, "/", Len(p))
  IN  IF d > s + 1 THEN SubSeq(p, 1, d - 1) ELSE p

\* os.path.join(a, b) for a relative b
join(a, b) ==
  IF a = "" THEN b
  ELSE IF SubSeq(a, Len(a), Len(a)) = "/" THEN a \o b
  ELSE a \o "/" \o b

RECURSIVE makedirs(_, _)
\* os.makedirs(p, exist_ok=True) when it succeeds: p and its missing parents.
makedirs(ds, p) ==
  IF p = "" \/ p \in ds THEN ds ELSE makedirs(ds \cup {p}, dirname(p))

\* os.listdir(d): the entries directly under d.
listdir(ds, fs, d) == {p \in ds \cup fs : p # d /\ dirname(p) = d}

RECURSIVE replace(_, _, _)
\* s.replace(old, new) for a one-character old.
replace(s, old, new) ==
  IF Len(s) = 0 THEN ""
  ELSE (IF SubSeq(s, 1, 1) = old THEN new ELSE SubSeq(s, 1, 1))
       \o replace(SubSeq(s, 2, Len(s)), old, new)

(***************************************************************************)
(* Job requests and the environment                                        *)
(***************************************************************************)
ExistingVideo == "inputs/clip.mp4"
VideoPaths == {None, "", "inputs/gone.mp4", ExistingVideo}
OutputDirs == {None, "out/job1"}

SegmentSpecs ==
  { [start |-> "00:00:03", end |-> "00:00:08"],
    [end |-> "00:00:08"],
    [start |-> "00:00:03"] }

SegmentLists == UNION {[1..n -> SegmentSpecs] : n \in 0..MaxSegments}

\* The job_details dicts: with a "segments" key, and with the key omitted.
JobRequests ==
  { [video_path |-> v, segments |-> s, output_dir |-> o] :
      v \in VideoPaths, s \in SegmentLists, o \in OutputDirs }
  \cup
  { [video_path |-> v, output_dir |-> o] : v \in VideoPaths, o \in OutputDirs }

\* The file system before the job.
InitDirs == {"inputs"}
InitFiles == {ExistingVideo}

\* Outcomes of one run of the media tool: the call returns the output path and
\* the file is there, the call returns the path but no file was produced, or
\* the call reports failure (returns None).
ExtractOutcomes == {"ok", "nofile", "error"}

\* Outcomes of the speech-to-text call: a text, or an exception.
Transcripts == {"", "hello"}
ServiceOutcomes == Transcripts \cup {"APIError", "Exception"}

\* Outcomes of open(path, 'w') followed by a write: done, or an IOError.
WriteOutcomes == {"ok", "IOError"}

VARIABLES
  job_details,              \* the request
  pc,                       \* position in process_job and its callees
  dirs, files,              \* the file system
  summary_json,             \* <<object stored in job_summary.json>>, or <<>>
  calls,                    \* the collaborator calls made so far, in order
  first_run,                \* what a first export_segments call returned
  output_dir,               \* handler.py locals
  temp_audio_dir,
  temp_audio_for_transcription,
  segments_output_dir,
  transcript_text_content,
  transcript_file_path,
  exported_audio_files,
  exported_video_files,
  final_results,
  extracted_audio_file_path,\* transcribe.py locals
  transcript_text,
  base_filename,            \* segment.py locals
  i,
  seg_audio_files,
  seg_video_files

vars == << job_details, pc, dirs, files, summary_json, calls, first_run,
           output_dir,
           temp_audio_dir, temp_audio_for_transcription, segments_output_dir,
           base_filename,
           transcript_text_content, transcript_file_path,
           exported_audio_files, exported_video_files, final_results,
           extracted_audio_file_path, transcript_text,
           i, seg_audio_files, seg_video_files >>

fsvars == << dirs, files, summary_json >>
handlerPaths == << output_dir, temp_audio_dir, temp_audio_for_transcription,
                   segments_output_dir >>
handlerLocals == << handlerPaths, transcript_text_content,
                    transcript_file_path, exported_audio_files,
                    exported_video_files, final_results >>
transcribeLocals == << extracted_audio_file_path, transcript_text >>
segmentLocals == << base_filename, i, seg_audio_files, seg_video_files >>

\* A dict that has not been built yet.
NoDict == [k \in {} |-> None]

Call(fn, out, res) == [fn |-> fn, out |-> out, res |-> res]

Init ==
  /\ job_details \in JobRequests
  /\ pc = "start"
  /\ dirs = InitDirs
  /\ files = InitFiles
  /\ summary_json = << >>
  /\ calls = << >>
  /\ first_run = NoDict
  /\ output_dir = None
  /\ temp_audio_dir = None
  /\ temp_audio_for_transcription = None
  /\ segments_output_dir = None
  /\ base_filename = None
  /\ transcript_text_content = None
  /\ transcript_file_path = None
  /\ exported_audio_files = << >>
  /\ exported_video_files = << >>
  /\ final_results = NoDict
  /\ extracted_audio_file_path = None
  /\ transcript_text = None
  /\ i = 0
  /\ seg_audio_files = << >>
  /\ seg_video_files = << >>

(***************************************************************************)
(* process_job, part 1: validation and directories                         *)
(***************************************************************************)
video_path == job_details.video_path
segments_to_export == Get(job_details, "segments", << >>)

\* os.path.exists(p)
exists(p) == p \in dirs \/ p \in files

\* The default output directory built from the base name with its extension.
DefaultOutputDir_KeepsExtension(vp) ==
  join("outputs", basename(vp) \o "_job_output")

\* The default output directory of handler.py:61-62.
DefaultOutputDir(vp) ==
  join("outputs", splitext_root(basename(vp)) \o "_job_output")

\* The rejection test without its os.path.exists part.
VideoMissing_NoExistsCheck(vp) == ~Truthy(vp)

\* handler.py:47: the test that rejects the request.
VideoMissing(vp) == ~Truthy(vp) \/ ~exists(vp)

\* handler.py:43-63: read the request, reject a missing video, default output_dir.
CheckVideoPath ==
  /\ pc = "start"
  /\ IF VideoMissing(video_path)
     THEN /\ final_results' =
               [ transcript_content |-> None,
                 transcript_file |-> None,
                 exported_audio_segments |-> << >>,
                 exported_video_segments |-> << >>,
                 job_status_file |-> None,
                 error |-> "Video path '" \o Str(video_path)
                             \o "' not provided or video does not exist." ]
          /\ pc' = "done"
          /\ UNCHANGED output_dir
     ELSE /\ output_dir' = IF ~Truthy(job_details.output_dir)
                           THEN DefaultOutputDir(video_path)
                           ELSE job_details.output_dir
          /\ pc' = "make_output_dir"
          /\ UNCHANGED final_results
  /\ UNCHANGED << job_details, first_run, fsvars, calls, temp_audio_dir,
                  temp_audio_for_transcription, segments_output_dir,
                  transcript_text_content, transcript_file_path,
                  exported_audio_files, exported_video_files,
                  transcribeLocals, segmentLocals >>

\* handler.py:66: os.makedirs(output_dir, exist_ok=True); an OSError is not caught.
MakeOutputDir ==
  /\ pc = "make_output_dir"
  /\ \E ok \in BOOLEAN :
       IF ok THEN /\ dirs' = makedirs(dirs, output_dir)
                  /\ pc' = "make_temp_audio_dir"
             ELSE /\ pc' = "raised"
                  /\ UNCHANGED dirs
  /\ UNCHANGED << job_details, first_run, files, summary_json, calls, handlerLocals,
                  transcribeLocals, segmentLocals >>

\* handler.py:74-80: derive the temporary audio path, create temp_audio and call
\* transcribe_video.
MakeTempAudioDir ==
  /\ pc = "make_temp_audio_dir"
  /\ temp_audio_dir' = join(output_dir, "temp_audio")
  /\ \E ok \in BOOLEAN :
       IF ok
       THEN /\ dirs' = makedirs(dirs, temp_audio_dir')
            /\ temp_audio_for_transcription' =
                 join(temp_audio_dir',
                      splitext_root(basename(video_path))
                        \o "_whisper_input.wav")
            /\ pc' = "transcribe_video"
            /\ calls' = Append(calls, Call("transcribe_video",
                                  temp_audio_for_transcription', "called"))
       ELSE /\ pc' = "raised"
            /\ UNCHANGED << dirs, calls, temp_audio_for_transcription >>
  /\ UNCHANGED << job_details, first_run, files, summary_json, output_dir,
                  segments_output_dir, transcript_text_content,
                  transcript_file_path, exported_audio_files,
                  exported_video_files, final_results, transcribeLocals,
                  segmentLocals >>

(***************************************************************************)
(* utils/ffmpeg_utils.py: the media tool wrappers.  Each returns the value *)
(* the function returns and the file system it leaves.                     *)
(***************************************************************************)
\* ffmpeg_utils.py:30-66
extract_full_audio_from_video(vp, output_audio_path, outcome) ==
  IF ~exists(vp)
  THEN [ret |-> None, dirs |-> dirs, files |-> files]
  ELSE [ret   |-> IF outcome = "error" THEN None ELSE output_audio_path,
        dirs  |-> makedirs(dirs, dirname(output_audio_path)),
        files |-> IF outcome = "ok" THEN files \cup {output_audio_path}
                  ELSE files]

\* The audio extraction run without overwrite_output: an output file that is
\* already there makes the tool fail.
extract_audio_segment_NoOverwrite(input_path, start_time, end_time, output_path, outcome) ==
  IF ~exists(input_path)
  THEN [ret |-> None, dirs |-> dirs, files |-> files]
  ELSE IF output_path \in files
  THEN [ret |-> None, dirs |-> makedirs(dirs, dirname(output_path)),
        files |-> files]
  ELSE [ret   |-> IF outcome = "error" THEN None ELSE output_path,
        dirs  |-> makedirs(dirs, dirname(output_path)),
        files |-> IF outcome = "ok" THEN files \cup {output_path} ELSE files]

\* ffmpeg_utils.py:68-106
extract_audio_segment(input_path, start_time, end_time, output_path, outcome) ==
  IF ~exists(input_path)
  THEN [ret |-> None, dirs |-> dirs, files |-> files]
  ELSE [ret   |-> IF outcome = "error" THEN None ELSE output_path,
        dirs  |-> makedirs(dirs, dirname(output_path)),
        files |-> IF outcome = "ok" THEN files \cup {output_path} ELSE files]

\* ffmpeg_utils.py:109-147
extract_video_segment(vp, start_time, end_time, output_path, outcome) ==
  IF ~exists(vp)
  THEN [ret |-> None, dirs |-> dirs, files |-> files]
  ELSE [ret   |-> IF outcome = "error" THEN None ELSE output_path,
        dirs  |-> makedirs(dirs, dirname(output_path)),
        files |-> IF outcome = "ok" THEN files \cup {output_path} ELSE files]

\* What the log keeps of a media tool outcome: "ok" when the call returned the
\* output path and produced the file, "failed" otherwise.
Logged(outcome) == IF outcome = "ok" THEN "ok" ELSE "failed"

(***************************************************************************)
(* transcriber/transcribe.py: transcribe_video                             *)
(***************************************************************************)
\* The abort test trusting the returned path without os.path.exists.
ExtractionFailed_NoExistsCheck(ret, ds, fs) == ~Truthy(ret)

\* transcribe.py:36: the test that aborts the transcription.
ExtractionFailed(ret, ds, fs) == ~Truthy(ret) \/ ret \notin (ds \cup fs)

\* transcribe.py:18-38: API key, temp directory, full-audio extraction.
TranscribeStart ==
  /\ pc = "transcribe_video"
  /\ \E api_key \in {None, "sk-test"} :
       IF ~Truthy(api_key)
       THEN /\ transcript_text_content' = None
            /\ pc' = "save_transcript"
            /\ UNCHANGED << dirs, files, calls, transcribeLocals >>
       ELSE \E outcome \in ExtractOutcomes :
              LET r == extract_full_audio_from_video(
                         video_path, temp_audio_for_transcription, outcome)
              IN  /\ dirs' = r.dirs
                  /\ files' = r.files
                  /\ calls' = Append(calls,
                       Call("extract_full_audio_from_video",
                            temp_audio_for_transcription, Logged(outcome)))
                  /\ extracted_audio_file_path' = r.ret
                  /\ transcript_text' = None
                  /\ IF ExtractionFailed(r.ret, r.dirs, r.files)
                     THEN /\ transcript_text_content' = None
                          /\ pc' = "save_transcript"
                     ELSE /\ pc' = "whisper"
                          /\ UNCHANGED transcript_text_content
  /\ UNCHANGED << job_details, first_run, summary_json, handlerPaths,
                  transcript_file_path, exported_audio_files,
                  exported_video_files, final_results, segmentLocals >>

\* transcribe.py:40-59: the service call; every exception is caught.
Whisper ==
  /\ pc = "whisper"
  /\ \E r \in ServiceOutcomes :
       /\ transcript_text' = IF r \in Transcripts THEN r ELSE None
       /\ calls' = Append(calls, Call("openai.audio.transcriptions.create",
                                      extracted_audio_file_path,
                                      IF r \in Transcripts THEN "ok" ELSE r))
  /\ pc' = "cleanup"
  /\ UNCHANGED << job_details, first_run, fsvars, handlerLocals,
                  extracted_audio_file_path, segmentLocals >>

\* The rmdir test without the os.listdir check.
DirIsEmpty_ExistsOnly(ds, fs, d) == d \in ds

\* transcribe.py:68: "os.path.exists(temp_audio_dir) and not os.listdir(...)".
DirIsEmpty(ds, fs, d) == d \in ds /\ listdir(ds, fs, d) = {}

\* transcribe.py:60-74 and handler.py:80: remove the temporary audio, remove its
\* directory when that left it empty, return the text to process_job.
Cleanup ==
  /\ pc = "cleanup"
  /\ IF exists(extracted_audio_file_path)
     THEN \E rm \in {"ok", "OSError"} :
            /\ calls' = Append(calls, Call("os.remove",
                                  extracted_audio_file_path, rm))
            /\ IF rm = "ok"
               THEN LET d == dirname(temp_audio_for_transcription)
                    IN /\ files' = files \ {extracted_audio_file_path}
                       /\ dirs' = IF DirIsEmpty(dirs, files', d)
                                  THEN dirs \ {d} ELSE dirs
               ELSE UNCHANGED << dirs, files >>
     ELSE UNCHANGED << dirs, files, calls >>
  /\ transcript_text_content' = transcript_text
  /\ pc' = "save_transcript"
  /\ UNCHANGED << job_details, first_run, summary_json, handlerPaths,
                  transcript_file_path, exported_audio_files,
                  exported_video_files, final_results, transcribeLocals,
                  segmentLocals >>

(***************************************************************************)
(* process_job, part 2: transcript file and segment export                 *)
(***************************************************************************)
\* handler.py:82-92: write transcript.txt; an IOError is caught.
SaveTranscript ==
  /\ pc = "save_transcript"
  /\ IF transcript_text_content # None
     THEN \E w \in WriteOutcomes :
            LET path == join(output_dir, "transcript.txt")
            IN /\ files' = IF w = "IOError" THEN files
                           ELSE files \cup {path}
               /\ transcript_file_path' = IF w = "ok" THEN path ELSE None
     ELSE UNCHANGED << files, transcript_file_path >>
  /\ pc' = "segment_export"
  /\ UNCHANGED << job_details, first_run, dirs, summary_json, calls, handlerPaths,
                  transcript_text_content, exported_audio_files,
                  exported_video_files, final_results, transcribeLocals,
                  segmentLocals >>

\* The branch test as "segments_to_export is not None".
HasSegments_NotNone(segs) == TRUE

\* handler.py:98: "if segments_to_export:".
HasSegments(segs) == Len(segs) > 0

\* handler.py:95-107, 111-112: call export_segments only for a non-empty list.
SegmentBranch ==
  /\ pc = "segment_export"
  /\ exported_audio_files' = << >>
  /\ exported_video_files' = << >>
  /\ IF HasSegments(segments_to_export)
     THEN /\ segments_output_dir' = join(output_dir, "segments")
          /\ \E ok \in BOOLEAN :
               IF ok THEN /\ dirs' = makedirs(dirs, segments_output_dir')
                          /\ calls' = Append(calls, Call("export_segments",
                                               segments_output_dir', "called"))
                          /\ pc' = "export_segments"
                     ELSE /\ pc' = "raised"
                          /\ UNCHANGED << dirs, calls >>
     ELSE /\ pc' = "consolidate"
          /\ UNCHANGED << dirs, calls, segments_output_dir >>
  /\ UNCHANGED << job_details, first_run, files, summary_json, output_dir,
                  temp_audio_dir, temp_audio_for_transcription,
                  transcript_text_content, transcript_file_path, final_results,
                  transcribeLocals, segmentLocals >>

(***************************************************************************)
(* segmenter/segment.py: export_segments(video_path, segments, output_dir) *)
(***************************************************************************)
\* The stem numbered with enumerate()'s 0-based index.
segment_filename_base_ZeroBased(n, start_time, end_time) ==
  base_filename \o "_segment_" \o ToString(n - 1) \o "_"
    \o replace(start_time, ":", "-") \o "_" \o replace(end_time, ":", "-")

\* segment.py:40-43
segment_filename_base(n, start_time, end_time) ==
  base_filename \o "_segment_" \o ToString(n) \o "_"
    \o replace(start_time, ":", "-") \o "_" \o replace(end_time, ":", "-")

\* segment.py:46
audio_output_path(n, start_time, end_time) ==
  join(segments_output_dir,
       segment_filename_base(n, start_time, end_time) \o "_audio.mp3")

\* segment.py:47
video_output_path(n, start_time, end_time) ==
  join(segments_output_dir,
       segment_filename_base(n, start_time, end_time) \o "_video.mp4")

\* segment.py:20-29: short-circuit on a missing video, create the directory,
\* derive the base file name.
ExportStart ==
  /\ pc = "export_segments"
  /\ seg_audio_files' = << >>
  /\ seg_video_files' = << >>
  /\ i' = 0
  /\ IF ~exists(video_path)
     THEN /\ pc' = "export_return"
          /\ UNCHANGED << dirs, base_filename >>
     ELSE /\ dirs' = makedirs(dirs, segments_output_dir)
          /\ base_filename' = splitext_root(basename(video_path))
          /\ pc' = "segment_loop"
  /\ UNCHANGED << job_details, first_run, files, summary_json, calls, handlerLocals,
                  transcribeLocals >>

\* The dict the loop is at: enumerate() counts from 0, sequences from 1.
seg_info == segments_to_export[i + 1]
start_time == Get(seg_info, "start", None)
end_time == Get(seg_info, "end", None)

\* The skip test looking at start only.
SkipsSegment_StartOnly(st, en) == ~Truthy(st)

\* segment.py:35: the test that skips a spec.
SkipsSegment(st, en) == ~Truthy(st) \/ ~Truthy(en)

\* segment.py:31-49: next segment; a spec missing start or end is skipped.
SegmentLoop ==
  /\ pc = "segment_loop"
  /\ IF i >= Len(segments_to_export)
     THEN /\ pc' = "export_return"
          /\ UNCHANGED i
     ELSE IF SkipsSegment(start_time, end_time)
          THEN /\ i' = i + 1
               /\ pc' = "segment_loop"
          ELSE /\ pc' = "extract_audio"
               /\ UNCHANGED i
  /\ UNCHANGED << job_details, first_run, fsvars, calls, handlerLocals, transcribeLocals,
                  base_filename, seg_audio_files, seg_video_files >>

\* The append test trusting the returned path without os.path.exists.
Exported_NoExistsCheck(ret, ds, fs) == Truthy(ret)

\* segment.py:53 and 61: the test that appends a path.
Exported(ret, ds, fs) == Truthy(ret) /\ ret \in (ds \cup fs)

\* segment.py:52-57: the audio clip of the segment.
ExtractAudio ==
  /\ pc = "extract_audio"
  /\ \E out \in {audio_output_path(i + 1, start_time, end_time)} :
     \E outcome \in ExtractOutcomes :
     \E r \in {extract_audio_segment(video_path, start_time, end_time, out,
                                     outcome)} :
          /\ dirs' = r.dirs
          /\ files' = r.files
          /\ calls' = Append(calls, Call("extract_audio_segment", out,
                                         Logged(outcome)))
          /\ seg_audio_files' = IF Exported(r.ret, r.dirs, r.files)
                                THEN Append(seg_audio_files, r.ret)
                                ELSE seg_audio_files
  /\ pc' = "extract_video"
  /\ UNCHANGED << job_details, first_run, summary_json, handlerLocals, transcribeLocals,
                  base_filename, i, seg_video_files >>

\* segment.py:60-65: the video clip of the segment, then the next iteration.
ExtractVideo ==
  /\ pc = "extract_video"
  /\ \E out \in {video_output_path(i + 1, start_time, end_time)} :
     \E outcome \in ExtractOutcomes :
     \E r \in {extract_video_segment(video_path, start_time, end_time, out,
                                     outcome)} :
          /\ dirs' = r.dirs
          /\ files' = r.files
          /\ calls' = Append(calls, Call("extract_video_segment", out,
                                         Logged(outcome)))
          /\ seg_video_files' = IF Exported(r.ret, r.dirs, r.files)
                                THEN Append(seg_video_files, r.ret)
                                ELSE seg_video_files
  /\ i' = i + 1
  /\ pc' = "segment_loop"
  /\ UNCHANGED << job_details, first_run, summary_json, handlerLocals, transcribeLocals,
                  base_filename, seg_audio_files >>

\* segment.py:22, 67 and handler.py:108-110: return the two lists.
ExportReturn ==
  /\ pc = "export_return"
  /\ exported_audio_files' = seg_audio_files
  /\ exported_video_files' = seg_video_files
  /\ pc' = "consolidate"
  /\ UNCHANGED << job_details, first_run, fsvars, calls, handlerPaths,
                  transcript_text_content, transcript_file_path, final_results,
                  transcribeLocals, segmentLocals >>

(***************************************************************************)
(* process_job, part 3: the result and the summary file                    *)
(***************************************************************************)
\* The error of the result without the "and not segments_to_export" test.
ConsolidatedError_NoSegmentsTest(text, segs) ==
  IF text = None
  THEN "Transcription failed and no segments were requested for export."
  ELSE None

\* handler.py:124-127: the error of the result.
ConsolidatedError(text, segs) ==
  IF text = None /\ Len(segs) = 0
  THEN "Transcription failed and no segments were requested for export."
  ELSE IF text = None THEN "Transcription failed."
  ELSE None

\* handler.py:115-127
Consolidate ==
  /\ pc = "consolidate"
  /\ final_results' =
       [ transcript_content |-> transcript_text_content,
         transcript_file |-> transcript_file_path,
         exported_audio_segments |-> exported_audio_files,
         exported_video_segments |-> exported_video_files,
         video_path_processed |-> video_path,
         job_output_directory |-> output_dir,
         error |-> ConsolidatedError(transcript_text_content,
                                     segments_to_export) ]
  /\ pc' = "write_summary"
  /\ UNCHANGED << job_details, first_run, fsvars, calls, handlerPaths,
                  transcript_text_content, transcript_file_path,
                  exported_audio_files, exported_video_files,
                  transcribeLocals, segmentLocals >>

job_status_filename == join(output_dir, "job_summary.json")

\* handler.py:133: the object json.dump stores, the dict as it is at the call.
Dumped(results) == results

\* handler.py:130-140: write job_summary.json, record its path, return.
WriteSummary ==
  /\ pc = "write_summary"
  /\ \E w \in WriteOutcomes :
       /\ files' = IF w = "IOError" THEN files
                   ELSE files \cup {job_status_filename}
       /\ summary_json' = IF w = "ok" THEN << Dumped(final_results) >>
                          ELSE summary_json
       /\ final_results' =
            ("job_status_file" :>
               (IF w = "ok" THEN job_status_filename ELSE None))
            @@ final_results
  /\ pc' = "done"
  /\ UNCHANGED << job_details, first_run, dirs, calls, handlerPaths,
                  transcript_text_content, transcript_file_path,
                  exported_audio_files, exported_video_files,
                  transcribeLocals, segmentLocals >>

Next ==
  \/ CheckVideoPath
  \/ MakeOutputDir
  \/ MakeTempAudioDir
  \/ TranscribeStart
  \/ Whisper
  \/ Cleanup
  \/ SaveTranscript
  \/ SegmentBranch
  \/ ExportStart
  \/ SegmentLoop
  \/ ExtractAudio
  \/ ExtractVideo
  \/ ExportReturn
  \/ Consolidate
  \/ WriteSummary

Spec == Init /\ [][Next]_vars

(***************************************************************************)
(* A job whose output directory may hold the temporary audio of an earlier *)
(* job for another video.                                                  *)
(***************************************************************************)
MaxLeftoverSegments == 1

LeftoverDir == "out/job1/temp_audio"
LeftoverFile == "out/job1/temp_audio/other_whisper_input.wav"

\* handler.py:25-45: process_job is entered with a request; the file system is
\* as an earlier job on the same output directory left it (handler.py:66-75
\* created the directories, transcribe.py:71-72 may have left its audio).
InitLeftovers ==
  /\ job_details \in {r \in JobRequests :
                        Len(Get(r, "segments", << >>)) <= MaxLeftoverSegments}
  /\ pc = "start"
  /\ dirs = makedirs(InitDirs, LeftoverDir)
  /\ \E left \in SUBSET {LeftoverFile} : files = InitFiles \cup left
  /\ summary_json = << >>
  /\ calls = << >>
  /\ first_run = NoDict
  /\ output_dir = None
  /\ temp_audio_dir = None
  /\ temp_audio_for_transcription = None
  /\ segments_output_dir = None
  /\ base_filename = None
  /\ transcript_text_content = None
  /\ transcript_file_path = None
  /\ exported_audio_files = << >>
  /\ exported_video_files = << >>
  /\ final_results = NoDict
  /\ extracted_audio_file_path = None
  /\ transcript_text = None
  /\ i = 0
  /\ seg_audio_files = << >>
  /\ seg_video_files = << >>

SpecLeftovers == InitLeftovers /\ [][Next]_vars

(***************************************************************************)
(* export_segments called twice with the same arguments.                   *)
(***************************************************************************)
MaxRerunSegments == 2

RerunRequests ==
  { [video_path |-> v, segments |-> s, output_dir |-> "out/job1"] :
      v \in {"inputs/gone.mp4", ExistingVideo},
      s \in UNION {[1..n -> SegmentSpecs] : n \in 0..MaxRerunSegments} }

\* segment.py:5: export_segments(video_path, segments, output_dir) is entered
\* directly, with an output directory that does not exist yet.
InitRerun ==
  /\ job_details \in RerunRequests
  /\ pc = "export_segments"
  /\ dirs = InitDirs
  /\ files = InitFiles
  /\ summary_json = << >>
  /\ calls = << >>
  /\ first_run = NoDict
  /\ output_dir = None
  /\ temp_audio_dir = None
  /\ temp_audio_for_transcription = None
  /\ segments_output_dir = "out/job1/segments"
  /\ base_filename = None
  /\ transcript_text_content = None
  /\ transcript_file_path = None
  /\ exported_audio_files = << >>
  /\ exported_video_files = << >>
  /\ final_results = NoDict
  /\ extracted_audio_file_path = None
  /\ transcript_text = None
  /\ i = 0
  /\ seg_audio_files = << >>
  /\ seg_video_files = << >>

\* segment.py:5-67: the caller keeps what the first call returned and what it
\* left on disk, and calls export_segments again with the same arguments.
RerunExport ==
  /\ pc = "consolidate"
  /\ first_run = NoDict
  /\ first_run' = [ audio_segments |-> exported_audio_files,
                    video_segments |-> exported_video_files,
                    files |-> files,
                    ncalls |-> Len(calls) ]
  /\ pc' = "export_segments"
  /\ UNCHANGED << job_details, fsvars, calls, handlerLocals,
                  transcribeLocals, segmentLocals >>

NextRerun ==
  \/ ExportStart
  \/ SegmentLoop
  \/ ExtractAudio
  \/ ExtractVideo
  \/ ExportReturn
  \/ RerunExport

SpecRerun == InitRerun /\ [][NextRerun]_vars

(***************************************************************************)
(* Vocabulary of the properties                                            *)
(***************************************************************************)
Returned == pc = "done"
Raised == pc = "raised"

\* The request names a video that is on disk.
VideoOnDisk == Truthy(video_path) /\ video_path \in InitFiles

\* A SegmentSpec with both start and end.
IsValidSpec(seg) ==
  /\ "start" \in DOMAIN seg /\ seg.start # None /\ seg.start # ""
  /\ "end" \in DOMAIN seg /\ seg.end # None /\ seg.end # ""

ValidIndices ==
  {k \in 1..Len(segments_to_export) : IsValidSpec(segments_to_export[k])}

ValidUpTo(n) == {k \in ValidIndices : k <= n}

Called(fn) == \E k \in 1..Len(calls) : calls[k].fn = fn

CallsTo(fn) == SelectSeq(calls, LAMBDA c : c.fn = fn)

\* The output paths of the calls to fn that succeeded, in call order.
OkOuts(fn) ==
  LET ok == SelectSeq(calls, LAMBDA c : c.fn = fn /\ c.res = "ok")
  IN  [k \in 1..Len(ok) |-> ok[k].out]

InSeq(x, sq) == \E k \in 1..Len(sq) : sq[k] = x

TranscriptionFailedMsg == "Transcription failed."
NoSegmentsRequestedMsg ==
  "Transcription failed and no segments were requested for export."
MissingVideoMsg ==
  "Video path '" \o Str(video_path) \o "' not provided or video does not exist."

(***************************************************************************)
(* C1                                                                      *)
(***************************************************************************)
\* C1: no exception escapes process_job; whatever the request and the outcomes
\* of the collaborators and of local I/O, the call never ends by raising.
C1_NoExceptionEscapes == ~Raised

(***************************************************************************)
(* C2                                                                      *)
(***************************************************************************)
\* C2: a request whose video_path is empty or not on disk returns at once with
\* error set, both segment lists empty, transcript_file and job_status_file
\* absent; no directory and no file is created, no collaborator is called and
\* no summary is written.
C2_MissingVideoFailsFast ==
  (pc # "start" /\ ~VideoOnDisk) =>
     /\ Returned
     /\ final_results.error = MissingVideoMsg
     /\ final_results.error # None
     /\ final_results.exported_audio_segments = << >>
     /\ final_results.exported_video_segments = << >>
     /\ final_results.transcript_file = None
     /\ final_results.job_status_file = None
     /\ dirs = InitDirs
     /\ files = InitFiles
     /\ calls = << >>
     /\ summary_json = << >>

C2_Witness ==
  /\ Returned
  /\ video_path = "inputs/gone.mp4"
  /\ job_details.output_dir = "out/job1"
  /\ Len(segments_to_export) = 2
  /\ final_results.error # None

(***************************************************************************)
(* C3                                                                      *)
(***************************************************************************)
\* C3: transcription and segment export run regardless of each other's outcome.
\* Every returned job with a video on disk has called transcribe_video, and has
\* called export_segments when segments were requested; when transcription
\* failed and at least one segment is valid, the result has no transcript,
\* error "Transcription failed.", and lists holding exactly the files whose
\* extraction succeeded.
C3_IndependentSteps ==
  (Returned /\ VideoOnDisk) =>
     /\ Called("transcribe_video")
     /\ (Len(segments_to_export) > 0 => Called("export_segments"))
     /\ (final_results.transcript_content = None /\ ValidIndices # {}) =>
           /\ final_results.transcript_file = None
           /\ final_results.error = TranscriptionFailedMsg
           /\ Len(CallsTo("extract_audio_segment")) = Cardinality(ValidIndices)
           /\ Len(CallsTo("extract_video_segment")) = Cardinality(ValidIndices)
           /\ final_results.exported_audio_segments
                = OkOuts("extract_audio_segment")
           /\ final_results.exported_video_segments
                = OkOuts("extract_video_segment")

C3_Witness ==
  /\ Returned
  /\ VideoOnDisk
  /\ InSeq(Call("openai.audio.transcriptions.create",
                temp_audio_for_transcription, "APIError"), calls)
  /\ final_results.transcript_content = None
  /\ final_results.error = TranscriptionFailedMsg
  /\ Len(final_results.exported_audio_segments) = 2
  /\ Len(final_results.exported_video_segments) = 2

(***************************************************************************)
(* C4                                                                      *)
(***************************************************************************)
\* C4: when transcription returned a text but transcript.txt could not be
\* written (the result has transcript_content and no transcript_file), the job
\* completes with error reporting the transcript save failure.
C4_TranscriptSaveFailureReported ==
  (Returned /\ VideoOnDisk
     /\ final_results.transcript_content # None
     /\ final_results.transcript_file = None)
  => final_results.error # None

(***************************************************************************)
(* C5                                                                      *)
(***************************************************************************)
\* C5: with no transcript and both export lists empty the error is a
\* synthesized message, one for "no segments were requested" and another for
\* "segments were requested but export produced no files"; neither is the plain
\* "Transcription failed." of a job that still exported files, and the
\* synthesized messages appear in no other situation.
C5_SynthesizedMessage ==
  (Returned /\ VideoOnDisk) =>
     LET nothing == /\ final_results.transcript_content = None
                    /\ final_results.exported_audio_segments = << >>
                    /\ final_results.exported_video_segments = << >>
         err == final_results.error
     IN  IF nothing
         THEN /\ err \notin {None, TranscriptionFailedMsg}
              /\ (err = NoSegmentsRequestedMsg)
                   <=> (Len(segments_to_export) = 0)
         ELSE err \in {None, TranscriptionFailedMsg}

(***************************************************************************)
(* C6                                                                      *)
(***************************************************************************)
\* C6: a job that passed validation ends by writing job_summary.json; when the
\* write succeeded job_status_file is its path, and when it failed
\* job_status_file is absent and error is the earlier error if there was one
\* and otherwise a message describing the summary-write failure.
C6_SummaryWriteReported ==
  (Returned /\ VideoOnDisk) =>
     LET earlier == ConsolidatedError(final_results.transcript_content,
                                      segments_to_export)
     IN  \/ /\ final_results.job_status_file = job_status_filename
            /\ job_status_filename \in files
            /\ summary_json # << >>
            /\ final_results.error = earlier
         \/ /\ final_results.job_status_file = None
            /\ summary_json = << >>
            /\ IF earlier # None THEN final_results.error = earlier
               ELSE final_results.error # None

(***************************************************************************)
(* C7                                                                      *)
(***************************************************************************)
\* C7: when the summary write succeeded, the object stored in
\* job_summary.json has the fields of the returned JobResult, job_status_file
\* included, with the same values.
C7_SummaryIsReturnedResult ==
  (Returned /\ summary_json # << >>) => summary_json[1] = final_results

(***************************************************************************)
(* C8                                                                      *)
(***************************************************************************)
\* The export lists at any point of the job: the two lists export_segments
\* builds, the two process_job receives, and those of the result once built.
AudioLists ==
  {seg_audio_files, exported_audio_files}
  \cup (IF "exported_audio_segments" \in DOMAIN final_results
        THEN {final_results.exported_audio_segments} ELSE {})

VideoLists ==
  {seg_video_files, exported_video_files}
  \cup (IF "exported_video_segments" \in DOMAIN final_results
        THEN {final_results.exported_video_segments} ELSE {})

\* The specs the loop has reached: i are done, one more is being processed.
Reached == IF pc \in {"extract_audio", "extract_video"} THEN i + 1 ELSE i

\* C8: at every point each list is no longer than the number of valid specs
\* (of those reached so far, while the loop runs); every path in a list comes
\* from an extraction call that succeeded and names a file on disk; a spec
\* missing start or end adds no call and no path, and the loop goes on to the
\* end of the list.
C8_OnlyConfirmedExports ==
  /\ \A l \in AudioLists :
       /\ Len(l) <= Cardinality(ValidUpTo(Reached))
       /\ Len(l) <= Cardinality(ValidIndices)
       /\ \A k \in 1..Len(l) :
            /\ l[k] \in files
            /\ InSeq(Call("extract_audio_segment", l[k], "ok"), calls)
  /\ \A l \in VideoLists :
       /\ Len(l) <= Cardinality(ValidUpTo(Reached))
       /\ Len(l) <= Cardinality(ValidIndices)
       /\ \A k \in 1..Len(l) :
            /\ l[k] \in files
            /\ InSeq(Call("extract_video_segment", l[k], "ok"), calls)
  /\ Len(CallsTo("extract_audio_segment")) <= Cardinality(ValidUpTo(Reached))
  /\ Len(CallsTo("extract_video_segment")) <= Cardinality(ValidUpTo(Reached))
  /\ (Called("export_segments")
        /\ pc \in {"export_return", "consolidate", "write_summary", "done"})
     => /\ i = Len(segments_to_export)
        /\ Len(CallsTo("extract_audio_segment")) = Cardinality(ValidIndices)

C8_Witness ==
  /\ Returned
  /\ Len(segments_to_export) = 3
  /\ ValidIndices = {1, 3}
  /\ "start" \notin DOMAIN segments_to_export[2]
  /\ Len(final_results.exported_audio_segments) = 2
  /\ Len(final_results.exported_video_segments) = 1

(***************************************************************************)
(* C9                                                                      *)
(***************************************************************************)
SegAudioPath(k) ==
  audio_output_path(k, segments_to_export[k].start, segments_to_export[k].end)
SegVideoPath(k) ==
  video_output_path(k, segments_to_export[k].start, segments_to_export[k].end)

AudioSucceeded(k) ==
  InSeq(Call("extract_audio_segment", SegAudioPath(k), "ok"), calls)
VideoSucceeded(k) ==
  InSeq(Call("extract_video_segment", SegVideoPath(k), "ok"), calls)

RECURSIVE ValidAudioPaths(_)
\* The audio paths of the valid segments k, k+1, ..., in input order.
ValidAudioPaths(k) ==
  IF k > Len(segments_to_export) THEN << >>
  ELSE (IF k \in ValidIndices THEN << SegAudioPath(k) >> ELSE << >>)
       \o ValidAudioPaths(k + 1)

RECURSIVE ValidVideoPaths(_)
\* The video paths of the valid segments k, k+1, ..., in input order.
ValidVideoPaths(k) ==
  IF k > Len(segments_to_export) THEN << >>
  ELSE (IF k \in ValidIndices THEN << SegVideoPath(k) >> ELSE << >>)
       \o ValidVideoPaths(k + 1)

\* The output paths of all the calls to fn, in call order.
Outs(fn) == LET cs == CallsTo(fn) IN [k \in 1..Len(cs) |-> cs[k].out]

\* C9: when export_segments has returned its lists to process_job, the audio
\* extractions attempted are those of the valid segments, once each and in
\* input order, and audio_paths is the subsequence of them that succeeded,
\* whatever the video extractions did; likewise for video_paths and the video
\* extractions.
C9_OrderPreservingSubsequences ==
  (Called("export_segments") /\ pc = "consolidate")
  => /\ Outs("extract_audio_segment") = ValidAudioPaths(1)
     /\ Outs("extract_video_segment") = ValidVideoPaths(1)
     /\ exported_audio_files = OkOuts("extract_audio_segment")
     /\ exported_video_files = OkOuts("extract_video_segment")

\* Segments [A, B, C], B failing both extractions: [A_audio, C_audio] and
\* [A_video, C_video].
C9_Witness ==
  /\ Returned
  /\ ValidIndices = {1, 2, 3}
  /\ ~AudioSucceeded(2) /\ ~VideoSucceeded(2)
  /\ final_results.exported_audio_segments
       = << SegAudioPath(1), SegAudioPath(3) >>
  /\ final_results.exported_video_segments
       = << SegVideoPath(1), SegVideoPath(3) >>

(***************************************************************************)
(* C10                                                                     *)
(***************************************************************************)
\* C10: for a video on disk and an empty or omitted segments list, the export
\* lists stay empty, export_segments and the segment extractions are never
\* called and no segments directory is created, whatever transcription did.
C10_NoSegmentsNoExport ==
  (VideoOnDisk /\ Len(segments_to_export) = 0) =>
     /\ exported_audio_files = << >>
     /\ exported_video_files = << >>
     /\ ~Called("export_segments")
     /\ ~Called("extract_audio_segment")
     /\ ~Called("extract_video_segment")
     /\ \A d \in dirs : basename(d) # "segments"
     /\ Returned => /\ final_results.exported_audio_segments = << >>
                    /\ final_results.exported_video_segments = << >>

C10_Witness ==
  /\ Returned
  /\ VideoOnDisk
  /\ "segments" \notin DOMAIN job_details
  /\ final_results.transcript_content = "hello"
  /\ final_results.exported_audio_segments = << >>
  /\ join(output_dir, "segments") \notin dirs

(***************************************************************************)
(* C11                                                                     *)
(***************************************************************************)
\* The default directory of the request that omits output_dir for
\* inputs/demo.mp4.
DemoDefaultOutputDir == DefaultOutputDir("inputs/demo.mp4")

\* The directory a request asks for: its output_dir when given, and otherwise
\* the default derived from the video of the model's requests.
RequestedOutputDir ==
  IF job_details.output_dir # None /\ job_details.output_dir # ""
  THEN job_details.output_dir
  ELSE "outputs/clip_job_output"

\* C11 as stated: every returned JobResult has a job_output_directory, the
\* caller's output_dir when given and the derived default otherwise.
C11_EveryResultNamesOutputDir ==
  Returned =>
     /\ "job_output_directory" \in DOMAIN final_results
     /\ final_results.job_output_directory = RequestedOutputDir

\* C11, amended: every JobResult returned for a request whose video is on disk
\* has a job_output_directory; it is the caller's output_dir when given and
\* the derived default otherwise, never the unset value, and it is the
\* directory the job created and wrote its summary under.
C11_ResultNamesUsedOutputDir ==
  /\ DemoDefaultOutputDir = "outputs/demo_job_output"
  /\ (Returned /\ VideoOnDisk) =>
        /\ "job_output_directory" \in DOMAIN final_results
        /\ final_results.job_output_directory = RequestedOutputDir
        /\ final_results.job_output_directory \notin {None, ""}
        /\ final_results.job_output_directory = output_dir
        /\ output_dir \in dirs
        /\ final_results.job_status_file
             \in {None, join(final_results.job_output_directory,
                             "job_summary.json")}

C11_Witness ==
  /\ Returned
  /\ VideoOnDisk
  /\ job_details.output_dir = None
  /\ final_results.job_output_directory = "outputs/clip_job_output"
  /\ "outputs/clip_job_output/job_summary.json" \in files

(***************************************************************************)
(* C13                                                                     *)
(***************************************************************************)
\* The stem of the segment at 1-based position k of a request for clip.mp4:
\* the valid spec of the model has start "00:00:03" and end "00:00:08".
ExpectedStem(k) == "clip_segment_" \o ToString(k) \o "_00-00-03_00-00-08"

IsExtraction(c) ==
  c.fn \in {"extract_audio_segment", "extract_video_segment"}

\* C13: the audio extraction of the segment at 1-based position k writes to
\* <segments dir>/<stem>_audio.mp3 and its video extraction to
\* <segments dir>/<stem>_video.mp4, where the stem is
\* <source base name>_segment_<k>_<start>_<end> with every ':' replaced by '-'
\* and k counts the skipped specs too; no two extractions of a run share an
\* output path.
C13_SegmentFileNames ==
  /\ pc = "extract_video" =>
       /\ calls[Len(calls)].fn = "extract_audio_segment"
       /\ calls[Len(calls)].out
            = segments_output_dir \o "/" \o ExpectedStem(i + 1) \o "_audio.mp3"
  /\ (pc = "segment_loop" /\ i > 0 /\ IsValidSpec(segments_to_export[i])) =>
       /\ calls[Len(calls)].fn = "extract_video_segment"
       /\ calls[Len(calls)].out
            = segments_output_dir \o "/" \o ExpectedStem(i) \o "_video.mp4"
  /\ pc = "consolidate" =>
       Cardinality({calls[k].out : k \in {j \in 1..Len(calls) :
                                            IsExtraction(calls[j])}})
         = Len(SelectSeq(calls, IsExtraction))

\* A skipped spec at position 1 and the valid spec at position 2 of a request
\* for clip.mp4: stem clip_segment_2_00-00-03_00-00-08.
C13_Witness ==
  /\ pc = "consolidate"
  /\ Len(segments_to_export) = 3
  /\ ValidIndices = {2, 3}
  /\ Outs("extract_audio_segment")
       = << "out/job1/segments/clip_segment_2_00-00-03_00-00-08_audio.mp3",
            "out/job1/segments/clip_segment_3_00-00-03_00-00-08_audio.mp3" >>
  /\ Outs("extract_video_segment")
       = << "out/job1/segments/clip_segment_2_00-00-03_00-00-08_video.mp4",
            "out/job1/segments/clip_segment_3_00-00-03_00-00-08_video.mp4" >>

(***************************************************************************)
(* C15                                                                     *)
(***************************************************************************)
CallIndices(fn) == {k \in 1..Len(calls) : calls[k].fn = fn}

\* transcribe_video has returned to process_job.
TranscriptionReturned ==
  pc \in {"save_transcript", "segment_export", "export_segments",
          "segment_loop", "extract_audio", "extract_video", "export_return",
          "consolidate", "write_summary", "done"}

\* C15: the transcription service is called at most once, and only after a
\* full-audio extraction that succeeded and whose file it is given; that file
\* is on disk when the call is made; after an extraction that failed or
\* produced no file the step makes no service call and returns no text.
C15_ServiceOnlyAfterExtraction ==
  LET svc == CallIndices("openai.audio.transcriptions.create")
      ext == CallIndices("extract_full_audio_from_video")
  IN  /\ Cardinality(svc) <= 1
      /\ Cardinality(ext) <= 1
      /\ \A k \in svc : \E j \in ext :
           /\ j < k
           /\ calls[j].res = "ok"
           /\ calls[j].out = calls[k].out
      /\ pc = "whisper" => /\ extracted_audio_file_path \in files
                           /\ svc = {}
                           /\ ext # {}
      /\ (\E j \in ext : calls[j].res = "failed") =>
           /\ svc = {}
           /\ pc # "whisper"
           /\ TranscriptionReturned => transcript_text_content = None

C15_Witness ==
  /\ Returned
  /\ InSeq(Call("extract_full_audio_from_video",
                temp_audio_for_transcription, "failed"), calls)
  /\ ~Called("openai.audio.transcriptions.create")
  /\ final_results.transcript_content = None

(***************************************************************************)
(* C14                                                                     *)
(***************************************************************************)
RemoveFailed ==
  InSeq(Call("os.remove", temp_audio_for_transcription, "OSError"), calls)

RemoveSucceeded ==
  InSeq(Call("os.remove", temp_audio_for_transcription, "ok"), calls)

FirstRunLog == SelectSeq(SubSeq(calls, 1, first_run.ncalls), IsExtraction)
SecondRunLog ==
  SelectSeq(SubSeq(calls, first_run.ncalls + 1, Len(calls)), IsExtraction)

SecondRunReturned == pc = "consolidate" /\ first_run # NoDict

\* C12: when export_segments has run twice with the same arguments and the
\* same extraction outcomes, both calls returned the same path lists, and the
\* second call left exactly the files of the first on disk: it wrote to the
\* same names and added none.
C12_RerunIdempotent ==
  (SecondRunReturned /\ SecondRunLog = FirstRunLog) =>
    /\ exported_audio_files = first_run.audio_segments
    /\ exported_video_files = first_run.video_segments
    /\ files = first_run.files
    /\ \A k \in 1..Len(SecondRunLog) :
         SecondRunLog[k].res = "ok" => SecondRunLog[k].out \in first_run.files

\* Both calls exported the audio and the video of one segment.
C12_Witness ==
  /\ SecondRunReturned
  /\ SecondRunLog = FirstRunLog
  /\ Len(SecondRunLog) = 2
  /\ \A k \in 1..2 : SecondRunLog[k].res = "ok"
  /\ Len(exported_audio_files) = 1
  /\ Len(exported_video_files) = 1
  /\ exported_audio_files[1] \in files
  /\ exported_video_files[1] \in files
  /\ Cardinality(files) = 3
====
